---- MODULE Spec2Model ----
(***************************************************************************)
(* Model of the stay-safe API gateway's generic proxy utility              *)
(* (src/utils/requests.js) and of the /tags router that mounts it          *)
(* (src/controller/tags.js).                                               *)
(*                                                                         *)
(* JavaScript values are encoded as follows.                               *)
(*   - a string is a sequence of text fragments; a template literal is the *)
(*     concatenation (\o) of its fragments;                                *)
(*   - a status code is an integer, 0 standing for `undefined`;            *)
(*   - a JSON body is a record [tag, payload, message]: tag "undefined",   *)
(*     tag "payload" (an opaque backend or domain payload) or tag          *)
(*     "message" (the object { message: <string> });                       *)
(*   - an options object is a TLA+ record whose DOMAIN is the set of keys  *)
(*     the object carries.                                                 *)
(***************************************************************************)
EXTENDS Integers, Sequences, FiniteSets, TLC

VARIABLES
    environment,    \* the configured environment name
    errorHandler,   \* the middleware returned by defaultErrorHandler(environment)
    pc,             \* per request: position in the middleware chain
    req,            \* per request: the route it arrived on
    options,        \* per request: the descriptor built by defaultTargetOptions
    call,           \* per request: the outbound call and its outcome
    res,            \* per request: the Express response object
    nextErr,        \* per request: the failures handed to next(err), in order
    trace,          \* per request: the observable events, in program order
    rpc,            \* resolveError harness: "ready" or "done"
    rerr,           \* resolveError harness: the err argument
    ropts,          \* resolveError harness: the options argument
    rvia,           \* resolveError harness: how resolveError was entered
    rres,           \* resolveError harness: the res argument
    rtrace          \* resolveError harness: the events, in program order

vars == <<environment, errorHandler, pc, req, options, call, res, nextErr, trace,
          rpc, rerr, ropts, rvia, rres, rtrace>>

proxyVars == <<environment, errorHandler, pc, req, options, call, res, nextErr, trace>>

harnessVars == <<rpc, rerr, ropts, rvia, rres, rtrace>>

----------------------------------------------------------------------------
(* Bounds *)

NumRequests == 2

Requests == 1..NumRequests

----------------------------------------------------------------------------
(* JavaScript values *)

UndefinedStatus == 0

JsUndefined == [tag |-> "undefined", payload |-> "", message |-> <<>>]

Payload(p) == [tag |-> "payload", payload |-> p, message |-> <<>>]

MessageBody(m) == [tag |-> "message", payload |-> "", message |-> m]

\* s contains t as a contiguous substring (fragment-wise)
Contains(s, t) ==
    \E i \in 0..(Len(s) - Len(t)) : \A j \in 1..Len(t) : s[i + j] = t[j]

\* A fresh Express response: nothing set by this code, nothing sent.
FreshRes == [statusCode |-> UndefinedStatus, body |-> JsUndefined, sent |-> FALSE]

\* A status code node's http layer accepts in writeHead.
ValidStatus(code) == code >= 100 /\ code <= 999

\* The events a handler produces, in program order.
Event(op, code, text, body) == [op |-> op, code |-> code, text |-> text, body |-> body]

\* res.status(code)
Status(r, code) == [r EXCEPT !.statusCode = code]

\* res.json(body): serialises the body and ends the response
Json(r, body) == [r EXCEPT !.body = body, !.sent = TRUE]

----------------------------------------------------------------------------
(* Failures *)

\* err instanceof ApiError: a status code and its toJSON() payload
ApiError(code, payload) ==
    [isApiError |-> TRUE, statusCode |-> code, error |-> JsUndefined,
     json |-> Payload(payload), message |-> <<payload>>, stack |-> "ApiError"]

\* A failure carrying a statusCode and the value of its `error` property
StatusError(code, error, msg) ==
    [isApiError |-> FALSE, statusCode |-> code, error |-> error,
     json |-> JsUndefined, message |-> msg, stack |-> "StatusCodeError"]

\* Any other Error: only a message and a stack
PlainError(msg, stack) ==
    [isApiError |-> FALSE, statusCode |-> UndefinedStatus, error |-> JsUndefined,
     json |-> JsUndefined, message |-> msg, stack |-> stack]

\* What node throws when a response is ended with an invalid status code
InvalidStatusError == PlainError(<<"Invalid status code: undefined">>, "RangeError")

DomainErrors == {ApiError(401, "unauthorized"), ApiError(422, "invalid-tag")}

StatusErrors ==
    {StatusError(404, Payload("tag-not-found"), <<"404 - tag-not-found">>),
     StatusError(502, JsUndefined, <<"Bad Gateway">>)}

PlainErrors ==
    {PlainError(<<"ECONNREFUSED">>, "RequestError"), PlainError(<<>>, "Error"),
     InvalidStatusError}

Failures == DomainErrors \cup StatusErrors \cup PlainErrors

----------------------------------------------------------------------------
(* resolveError, src/utils/requests.js:22-40 *)

DefaultOptions ==
    [unknownErrorMessage |-> <<"Internal Server Error">>, log |-> FALSE,
     displayErrorReason |-> FALSE]

\* _.extend(target, source): every key of source overrides target
Extend(target, source) ==
    [k \in DOMAIN target \cup DOMAIN source |->
        IF k \in DOMAIN source THEN source[k] ELSE target[k]]

\* `${opts.unknownErrorMessage}. Reason: ${err.message}`
ReasonMessage(opts, err) == opts.unknownErrorMessage \o <<". Reason: ">> \o err.message

\* Seeded fault: the status-code test made before the instanceof test
ErrorBranchStatusFirst(err) ==
    IF err.statusCode # UndefinedStatus THEN "statusCode"
    ELSE IF err.isApiError THEN "ApiError"
    ELSE "unknown"

\* The if / else-if / else of resolveError
ErrorBranch(err) ==
    IF err.isApiError THEN "ApiError"
    ELSE IF err.statusCode # UndefinedStatus THEN "statusCode"
    ELSE "unknown"

\* The [res, events] resolveError leaves behind
resolveError(err, r, opts0) ==
    LET opts == Extend(DefaultOptions, opts0)
        branch == ErrorBranch(err)
    IN  IF branch = "ApiError" THEN
            [res |-> Json(Status(r, err.statusCode), err.json),
             events |-> << Event("res.status", err.statusCode, <<>>, JsUndefined),
                           Event("res.json", 0, <<>>, err.json) >>]
        ELSE IF branch = "statusCode" THEN
            [res |-> Json(Status(r, err.statusCode), err.error),
             events |-> << Event("res.status", err.statusCode, <<>>, JsUndefined),
                           Event("res.json", 0, <<>>, err.error) >>]
        ELSE
            LET errorMessage == IF opts.displayErrorReason
                                THEN ReasonMessage(opts, err)
                                ELSE opts.unknownErrorMessage
                logged == IF opts.log
                          THEN << Event("logger.error", 0, ReasonMessage(opts, err),
                                        Payload(err.stack)) >>
                          ELSE << >>
            IN  [res |-> Json(Status(r, 500), MessageBody(errorMessage)),
                 events |-> logged \o
                            << Event("res.status", 500, <<>>, JsUndefined),
                               Event("res.json", 0, <<>>, MessageBody(errorMessage)) >>]

\* Seeded fault: the development options without the log flag
DevelopmentOptionsSilent == [req |-> TRUE, displayErrorReason |-> TRUE]

\* The options literal of developmentErrorHandler (its `req` key is never read)
DevelopmentOptions == [log |-> TRUE, req |-> TRUE, displayErrorReason |-> TRUE]

\* Seeded fault: the production options also ask for the reason
ProductionOptionsLeaky == [log |-> TRUE, req |-> TRUE, displayErrorReason |-> TRUE]

\* The options literal of productionErrorHandler
ProductionOptions == [log |-> TRUE, req |-> TRUE]

developmentErrorHandler(err, r) == resolveError(err, r, DevelopmentOptions)

productionErrorHandler(err, r) == resolveError(err, r, ProductionOptions)

\* Seeded fault: every development-like name selects the verbose middleware
defaultErrorHandlerDevNames(env) ==
    IF env \in {"localhost", "development"} THEN "developmentErrorHandler"
    ELSE "productionErrorHandler"

\* defaultErrorHandler(environment): which of the two middlewares is returned
defaultErrorHandler(env) ==
    IF env = "localhost" THEN "developmentErrorHandler" ELSE "productionErrorHandler"

\* Calling the middleware defaultErrorHandler returned
ApplyErrorHandler(h, err, r) ==
    IF h = "developmentErrorHandler" THEN developmentErrorHandler(err, r)
    ELSE productionErrorHandler(err, r)

EnvironmentNames == {"localhost", "development", "production"}

----------------------------------------------------------------------------
(* The routes, src/controller/tags.js *)

\* request.defaults({ baseUrl, json: true }) of the `request` package: calling it
\* starts the call and returns a Request stream, which has no `then`.
dataServiceRequest == "request.defaults"

\* The baseRequest defaultProxyHandler documents: RequestPromise.defaults, whose
\* calls return a promise of the full response.
documentedRequest == "RequestPromise.defaults"

\* Whether baseRequest(options) returns a thenable
ReturnsPromise(baseRequest) == baseRequest = documentedRequest

\* router.get('/', [guards.authenticated], defaultProxyHandler(dataServiceRequest))
GetTags ==
    [method |-> "GET", originalUrl |-> "/tags", body |-> JsUndefined,
     passedHeaders |-> <<"authorization">>, query |-> << >>,
     guards |-> <<"authenticated">>, baseRequest |-> dataServiceRequest, uri |-> ""]

\* router.post('/', [guards.admin], defaultProxyHandler(dataServiceRequest))
PostTags ==
    [method |-> "POST", originalUrl |-> "/tags", body |-> Payload("new-tag"),
     passedHeaders |-> <<"authorization">>, query |-> << >>,
     guards |-> <<"admin">>, baseRequest |-> dataServiceRequest, uri |-> ""]

\* defaultProxyHandler(baseRequest, uri) used as its documentation describes
DocumentedMount ==
    [method |-> "GET", originalUrl |-> "/tags?name=a", body |-> JsUndefined,
     passedHeaders |-> << >>, query |-> <<"name=a">>,
     guards |-> << >>, baseRequest |-> documentedRequest, uri |-> "/v2/tags"]

Routes == {GetTags, PostTags, DocumentedMount}

\* Seeded fault: the forwarder registered ahead of the guards
RouteChainForwarderFirst(route) == <<"defaultProxyHandler">> \o route.guards

\* The middleware chain express runs for a route: the guards, then the forwarder
RouteChain(route) == route.guards \o <<"defaultProxyHandler">>

\* What a guard answers when it rejects (its own status and payload)
GuardRejection(guard) ==
    IF guard = "admin" THEN [statusCode |-> 403, body |-> Payload("forbidden")]
    ELSE [statusCode |-> 401, body |-> Payload("unauthenticated")]

\* defaultTargetOptions(req, uri)
defaultTargetOptions(rq, uri) ==
    [method |-> rq.method,
     uri |-> IF uri # "" THEN uri ELSE rq.originalUrl,
     headers |-> rq.passedHeaders,
     body |-> rq.body,
     qs |-> rq.query]

NoOptions ==
    [method |-> "", uri |-> "", headers |-> << >>, body |-> JsUndefined, qs |-> << >>]

NoRoute ==
    [method |-> "", originalUrl |-> "", body |-> JsUndefined,
     passedHeaders |-> << >>, query |-> << >>, guards |-> << >>,
     baseRequest |-> "", uri |-> ""]

----------------------------------------------------------------------------
(* The backend *)

NoResponse == [statusCode |-> UndefinedStatus, body |-> JsUndefined]

BackendResponses ==
    {[statusCode |-> 200, body |-> Payload("tags-a-b")],
     [statusCode |-> 201, body |-> Payload("tag-created")]}

CallFailures ==
    {StatusError(404, Payload("tag-not-found"), <<"404 - tag-not-found">>),
     StatusError(502, JsUndefined, <<"Bad Gateway">>),
     PlainError(<<"ECONNREFUSED">>, "RequestError")}

NoCall == [issued |-> 0, state |-> "none", response |-> NoResponse,
           err |-> PlainError(<<>>, "")]

----------------------------------------------------------------------------
(* The proxy handler, src/utils/requests.js:101-111 *)

At(state, stage) == [state |-> state, stage |-> stage]

\* Where express goes after the middleware at `stage` of the chain calls next()
NextStage(route, stage) ==
    LET chain == RouteChain(route)
    IN  IF stage + 1 > Len(chain) THEN At("done", stage + 1)
        ELSE IF chain[stage + 1] = "defaultProxyHandler" THEN At("proxy", stage + 1)
        ELSE At("guard", stage + 1)

\* Seeded fault: the awaited result kept in one slot all invocations share
AwaitOutcomeShared(r) ==
    IF call[1].state = "rejected"
    THEN [kind |-> "throw", response |-> NoResponse, err |-> call[1].err]
    ELSE [kind |-> "value", response |-> call[1].response, err |-> call[1].err]

\* What `await baseRequest(options)` yields when the handler resumes: the value
\* a fulfilled promise carries, the failure a rejected one throws, or the
\* returned object itself when it is no thenable.
AwaitOutcome(r) ==
    IF ReturnsPromise(req[r].baseRequest) THEN
        IF call[r].state = "rejected"
        THEN [kind |-> "throw", response |-> NoResponse, err |-> call[r].err]
        ELSE [kind |-> "value", response |-> call[r].response, err |-> call[r].err]
    ELSE
        [kind |-> "value",
         response |-> [statusCode |-> UndefinedStatus, body |-> options[r].body],
         err |-> call[r].err]

\* Whether the awaited value is available: a promise once settled, any other
\* value at the next microtask
AwaitReady(r) ==
    ReturnsPromise(req[r].baseRequest) => call[r].state \in {"fulfilled", "rejected"}

\* Seeded fault: the catch block answers 500 itself before calling next
ProxyTailInline(outcome, r0) ==
    IF outcome.kind = "throw" THEN
        [res |-> Json(Status(r0, 500), MessageBody(outcome.err.message)),
         events |-> << Event("res.status", 500, <<>>, JsUndefined),
                       Event("res.json", 0, <<>>, MessageBody(outcome.err.message)),
                       Event("next", 0, outcome.err.message, JsUndefined) >>,
         next |-> << outcome.err >>]
    ELSE
        [res |-> Json(Status(r0, outcome.response.statusCode), outcome.response.body),
         events |-> << Event("res.status", outcome.response.statusCode, <<>>, JsUndefined),
                       Event("res.json", 0, <<>>, outcome.response.body) >>,
         next |-> << >>]

\* Lines 106-109: the rest of the try block and the catch. Yields the response
\* object, the events, and the failures handed to next.
ProxyTail(outcome, r0) ==
    IF outcome.kind = "throw" THEN
        [res |-> r0,
         events |-> << Event("next", 0, outcome.err.message, JsUndefined) >>,
         next |-> << outcome.err >>]
    ELSE
        LET r1 == Status(r0, outcome.response.statusCode)
            statusEv == Event("res.status", outcome.response.statusCode, <<>>, JsUndefined)
        IN  IF ValidStatus(r1.statusCode) THEN
                [res |-> Json(r1, outcome.response.body),
                 events |-> << statusEv,
                               Event("res.json", 0, <<>>, outcome.response.body) >>,
                 next |-> << >>]
            ELSE
                [res |-> r1,
                 events |-> << statusEv,
                               Event("next", 0, InvalidStatusError.message, JsUndefined) >>,
                 next |-> << InvalidStatusError >>]

\* A request arrives on one of the routes
Arrive(r) ==
    /\ pc[r].state = "idle"
    /\ \E route \in Routes :
          /\ req' = [req EXCEPT ![r] = route]
          /\ pc' = [pc EXCEPT ![r] = NextStage(route, 0)]
    /\ UNCHANGED <<environment, errorHandler, options, call, res, nextErr, trace>>
    /\ UNCHANGED harnessVars

\* The guard lets the request through: next()
GuardAccept(r) ==
    /\ pc[r].state = "guard"
    /\ trace' = [trace EXCEPT ![r] =
                    Append(@, Event("guard.next", 0, <<RouteChain(req[r])[pc[r].stage]>>,
                                    JsUndefined))]
    /\ pc' = [pc EXCEPT ![r] = NextStage(req[r], pc[r].stage)]
    /\ UNCHANGED <<environment, errorHandler, req, options, call, res, nextErr>>
    /\ UNCHANGED harnessVars

\* The guard rejects the request with its own status and payload
GuardReject(r) ==
    /\ pc[r].state = "guard"
    /\ LET g == RouteChain(req[r])[pc[r].stage]
           answer == GuardRejection(g)
       IN  /\ res' = [res EXCEPT ![r] = Json(Status(@, answer.statusCode), answer.body)]
           /\ trace' = [trace EXCEPT ![r] =
                           Append(@, Event("guard.reject", answer.statusCode, <<g>>,
                                           answer.body))]
    /\ pc' = [pc EXCEPT ![r] = At("done", pc[r].stage)]
    /\ UNCHANGED <<environment, errorHandler, req, options, call, nextErr>>
    /\ UNCHANGED harnessVars

\* Lines 104-105 up to the await: build the descriptor, issue the call, suspend
ProxyInvoke(r) ==
    /\ pc[r].state = "proxy"
    /\ LET opts == defaultTargetOptions(req[r], req[r].uri)
       IN  /\ options' = [options EXCEPT ![r] = opts]
           /\ trace' = [trace EXCEPT ![r] =
                           @ \o << Event("baseRequest", 0, <<opts.method, opts.uri>>, opts.body),
                                   Event("await", 0, <<>>, JsUndefined) >>]
    /\ call' = [call EXCEPT ![r].issued = @ + 1, ![r].state = "pending"]
    /\ pc' = [pc EXCEPT ![r] = At("awaiting", pc[r].stage)]
    /\ UNCHANGED <<environment, errorHandler, req, res, nextErr>>
    /\ UNCHANGED harnessVars

\* The backend answers the outbound call
BackendRespond(r) ==
    /\ call[r].state = "pending"
    /\ \E resp \in BackendResponses :
          call' = [call EXCEPT ![r].state = "fulfilled", ![r].response = resp]
    /\ UNCHANGED <<environment, errorHandler, pc, req, options, res, nextErr, trace>>
    /\ UNCHANGED harnessVars

\* The outbound call fails
BackendFail(r) ==
    /\ call[r].state = "pending"
    /\ \E e \in CallFailures :
          call' = [call EXCEPT ![r].state = "rejected", ![r].err = e]
    /\ UNCHANGED <<environment, errorHandler, pc, req, options, res, nextErr, trace>>
    /\ UNCHANGED harnessVars

\* The handler resumes after the await and runs to its end
ProxyResume(r) ==
    /\ pc[r].state = "awaiting"
    /\ AwaitReady(r)
    /\ LET tail == ProxyTail(AwaitOutcome(r), res[r])
       IN  /\ res' = [res EXCEPT ![r] = tail.res]
           /\ trace' = [trace EXCEPT ![r] =
                           @ \o << Event("resume", 0, <<>>, JsUndefined) >> \o tail.events]
           /\ nextErr' = [nextErr EXCEPT ![r] = @ \o tail.next]
           /\ pc' = [pc EXCEPT ![r] =
                        IF tail.next = << >> THEN At("done", pc[r].stage)
                        ELSE At("error", pc[r].stage)]
    /\ UNCHANGED <<environment, errorHandler, req, options, call>>
    /\ UNCHANGED harnessVars

\* Seeded fault: a failure sends the request through the forwarder again
ErrorMiddlewareRetry(r) ==
    /\ pc[r].state = "error"
    /\ pc' = [pc EXCEPT ![r] = At("proxy", pc[r].stage)]
    /\ UNCHANGED <<environment, errorHandler, req, options, call, res, nextErr, trace>>
    /\ UNCHANGED harnessVars

\* Express hands the failure given to next to the error-handling middleware
ErrorMiddleware(r) ==
    /\ pc[r].state = "error"
    /\ LET out == ApplyErrorHandler(errorHandler, nextErr[r][Len(nextErr[r])], res[r])
       IN  /\ res' = [res EXCEPT ![r] = out.res]
           /\ trace' = [trace EXCEPT ![r] =
                           @ \o << Event("errorHandler", 0, <<errorHandler>>, JsUndefined) >>
                             \o out.events]
    /\ pc' = [pc EXCEPT ![r] = At("done", pc[r].stage)]
    /\ UNCHANGED <<environment, errorHandler, req, options, call, nextErr>>
    /\ UNCHANGED harnessVars

Init ==
    /\ environment \in EnvironmentNames
    /\ errorHandler = defaultErrorHandler(environment)
    /\ pc = [r \in Requests |-> At("idle", 0)]
    /\ req = [r \in Requests |-> NoRoute]
    /\ options = [r \in Requests |-> NoOptions]
    /\ call = [r \in Requests |-> NoCall]
    /\ res = [r \in Requests |-> FreshRes]
    /\ nextErr = [r \in Requests |-> << >>]
    /\ trace = [r \in Requests |-> << >>]
    /\ rpc = "unused"
    /\ rerr = PlainError(<<>>, "")
    /\ ropts = << >>
    /\ rvia = ""
    /\ rres = FreshRes
    /\ rtrace = << >>

Next ==
    \E r \in Requests :
        \/ Arrive(r)
        \/ GuardAccept(r)
        \/ GuardReject(r)
        \/ ProxyInvoke(r)
        \/ BackendRespond(r)
        \/ BackendFail(r)
        \/ ProxyResume(r)
        \/ ErrorMiddleware(r)

Spec == Init /\ [][Next]_vars

----------------------------------------------------------------------------
(* resolveError and the two error middlewares over every failure shape and  *)
(* every options object                                                     *)

OptionKeys == {"unknownErrorMessage", "log", "displayErrorReason"}

UnknownErrorMessages == {<<"Service Unavailable">>, <<"Oops">>}

\* The options object carrying the keys of S (none: options omitted)
OptionsObject(S, m, l, d) ==
    [k \in S |-> CASE k = "unknownErrorMessage" -> m
                   [] k = "log" -> l
                   [] OTHER -> d]

InitResolve ==
    /\ environment = "localhost"
    /\ errorHandler = defaultErrorHandler(environment)
    /\ pc = [r \in Requests |-> At("idle", 0)]
    /\ req = [r \in Requests |-> NoRoute]
    /\ options = [r \in Requests |-> NoOptions]
    /\ call = [r \in Requests |-> NoCall]
    /\ res = [r \in Requests |-> FreshRes]
    /\ nextErr = [r \in Requests |-> << >>]
    /\ trace = [r \in Requests |-> << >>]
    /\ rpc = "ready"
    /\ rerr \in Failures
    /\ \E S \in SUBSET OptionKeys, m \in UnknownErrorMessages, l \in BOOLEAN, d \in BOOLEAN :
          ropts = OptionsObject(S, m, l, d)
    /\ rvia = ""
    /\ rres = FreshRes
    /\ rtrace = << >>

\* resolveError(err, req, res, options)
ResolveErrorCall ==
    /\ rpc = "ready"
    /\ LET out == resolveError(rerr, rres, ropts)
       IN  rres' = out.res /\ rtrace' = out.events
    /\ rvia' = "resolveError"
    /\ rpc' = "done"
    /\ UNCHANGED <<rerr, ropts>>
    /\ UNCHANGED proxyVars

\* developmentErrorHandler(err, req, res, next)
DevelopmentErrorHandlerCall ==
    /\ rpc = "ready"
    /\ LET out == developmentErrorHandler(rerr, rres)
       IN  rres' = out.res /\ rtrace' = out.events
    /\ rvia' = "developmentErrorHandler"
    /\ rpc' = "done"
    /\ UNCHANGED <<rerr, ropts>>
    /\ UNCHANGED proxyVars

\* productionErrorHandler(err, req, res, next)
ProductionErrorHandlerCall ==
    /\ rpc = "ready"
    /\ LET out == productionErrorHandler(rerr, rres)
       IN  rres' = out.res /\ rtrace' = out.events
    /\ rvia' = "productionErrorHandler"
    /\ rpc' = "done"
    /\ UNCHANGED <<rerr, ropts>>
    /\ UNCHANGED proxyVars

NextResolve ==
    \/ ResolveErrorCall
    \/ DevelopmentErrorHandlerCall
    \/ ProductionErrorHandlerCall

SpecResolve == InitResolve /\ [][NextResolve]_vars

----------------------------------------------------------------------------
(* Properties *)

\* The positions of the events named op in a trace
Positions(tr, op) == {i \in 1..Len(tr) : tr[i].op = op}

CountOp(tr, op) == Cardinality(Positions(tr, op))

\* The forwarder of request r has run to its end
ProxyFinished(r) == Positions(trace[r], "resume") # {}

\* The failure is neither a domain error nor carries a status code
Unclassified(err) == ~err.isApiError /\ err.statusCode = UndefinedStatus

GenericMessage == <<"Internal Server Error">>

ReasonText(err) == <<". Reason: ">> \o err.message

\* C1: whenever the outbound call of a request has completed with a backend
\* response of status S and body B and the forwarder has finished, the caller's
\* response has been written with status S and body B and next was not called.
C1_PassThrough ==
    \A r \in Requests :
        (ProxyFinished(r) /\ call[r].state = "fulfilled") =>
            /\ res[r].sent
            /\ res[r].statusCode = call[r].response.statusCode
            /\ res[r].body = call[r].response.body
            /\ nextErr[r] = << >>

\* C2: an unclassified failure handled by the middleware defaultErrorHandler
\* chose is answered with status 500 and a {message} body that contains the
\* generic message; the body contains ". Reason: " + err.message exactly when
\* the verbose (development) middleware is the one in use.
C2_UnclassifiedIs500 ==
    \A r \in Requests :
        (pc[r].state = "done" /\ nextErr[r] # << >> /\ Unclassified(nextErr[r][1])) =>
            /\ res[r].sent
            /\ res[r].statusCode = 500
            /\ res[r].body.tag = "message"
            /\ Contains(res[r].body.message, GenericMessage)
            /\ Contains(res[r].body.message, ReasonText(nextErr[r][1]))
                   <=> (errorHandler = "developmentErrorHandler")

C2_Witness ==
    \E r \in Requests :
        /\ pc[r].state = "done"
        /\ nextErr[r] = << PlainError(<<"ECONNREFUSED">>, "RequestError") >>
        /\ errorHandler = "productionErrorHandler"
        /\ res[r].body = MessageBody(GenericMessage)

\* C3: for a domain error with status code C and payload P, resolveError answers
\* with status C and body P, whichever way it is entered and whatever the
\* options are; it never logs, never answers 500 and never sends err.error.
C3_DomainErrorVerbatim ==
    (rpc = "done" /\ rerr.isApiError) =>
        /\ rres.sent
        /\ rres.statusCode = rerr.statusCode
        /\ rres.body = rerr.json
        /\ rres.body.tag = "payload"
        /\ Positions(rtrace, "logger.error") = {}

C3_Witness ==
    /\ rpc = "done"
    /\ rvia = "resolveError"
    /\ rerr = ApiError(422, "invalid-tag")
    /\ DOMAIN ropts = OptionKeys
    /\ ropts.log /\ ropts.displayErrorReason
    /\ rres.statusCode = 422
    /\ rres.body = Payload("invalid-tag")

\* C4 as stated: the verbose middleware is the one returned for the local and
\* development environment names, the terse one for every other name.
C4_VerboseForLocalAndDevelopment ==
    IF environment \in {"localhost", "development"}
    THEN errorHandler = "developmentErrorHandler"
    ELSE errorHandler = "productionErrorHandler"

\* The profile the environment name "localhost" alone selects
ProfileOf(env) ==
    IF env = "localhost" THEN "developmentErrorHandler" ELSE "productionErrorHandler"

\* C4 (amended): the verbose middleware is returned exactly for the environment
\* name "localhost" and the terse one for every other name, "development"
\* included; every failure of every request is handled by the middleware so
\* chosen, and an unclassified failure shows its reason exactly under "localhost".
C4_VerboseOnlyForLocalhost ==
    /\ errorHandler = ProfileOf(environment)
    /\ \A r \in Requests : \A i \in Positions(trace[r], "errorHandler") :
          trace[r][i].text = << ProfileOf(environment) >>
    /\ \A r \in Requests :
          (pc[r].state = "done" /\ nextErr[r] # << >> /\ Unclassified(nextErr[r][1])) =>
              (Contains(res[r].body.message, ReasonText(nextErr[r][1]))
                  <=> environment = "localhost")

C4_Witness ==
    /\ environment = "development"
    /\ \E r \in Requests :
          /\ pc[r].state = "done"
          /\ nextErr[r] = << PlainError(<<"ECONNREFUSED">>, "RequestError") >>
          /\ Positions(trace[r], "errorHandler") # {}
          /\ res[r].body = MessageBody(GenericMessage)

\* C5: no request is forwarded more than once: on every path (relay, failure
\* with a status code, network failure, error resolution) the number of
\* outbound calls issued for a request is at most one.
C5_ForwardedAtMostOnce ==
    \A r \in Requests :
        /\ call[r].issued <= 1
        /\ CountOp(trace[r], "baseRequest") = call[r].issued

C5_Witness ==
    \E r \in Requests :
        /\ pc[r].state = "done"
        /\ call[r].state = "rejected"
        /\ nextErr[r] = << PlainError(<<"ECONNREFUSED">>, "RequestError") >>
        /\ res[r].statusCode = 500
        /\ call[r].issued = 1

\* The guard tags.js attaches to a route
GuardOf(route) == IF route.method = "POST" THEN "admin" ELSE "authenticated"

\* C6: on the /tags routes the forwarder runs only after the route's guard
\* (admin for POST, authenticated for GET) has let the request through; a
\* request the guard rejects never reaches the forwarder, issues no outbound
\* call, and is answered with the guard's own status and payload.
C6_GuardBeforeForwarder ==
    \A r \in Requests :
        req[r] \in {GetTags, PostTags} =>
            /\ \A i \in Positions(trace[r], "baseRequest") :
                  \E j \in 1..(i - 1) :
                      /\ trace[r][j].op = "guard.next"
                      /\ trace[r][j].text = << GuardOf(req[r]) >>
            /\ pc[r].state \in {"proxy", "awaiting", "error"} =>
                  Positions(trace[r], "guard.next") # {}
            /\ Positions(trace[r], "guard.reject") # {} =>
                  /\ pc[r].state = "done"
                  /\ call[r] = NoCall
                  /\ options[r] = NoOptions
                  /\ Positions(trace[r], "baseRequest") = {}
                  /\ res[r] = Json(Status(FreshRes, GuardRejection(GuardOf(req[r])).statusCode),
                                   GuardRejection(GuardOf(req[r])).body)

C6_Witness ==
    \E r \in Requests :
        /\ req[r] = PostTags
        /\ Positions(trace[r], "guard.reject") # {}
        /\ res[r].statusCode = 403
        /\ call[r].issued = 0

\* Everything the program keeps for one request
PerRequest(r) == <<pc[r], req[r], options[r], call[r], res[r], nextErr[r], trace[r]>>

\* C7: with several invocations in flight and their outbound calls completing
\* in any order, what a finished forwarder has written or handed to next comes
\* from that request's own outbound call alone, it has suspended exactly once
\* (one await, one resumption), and no step of one request changes anything
\* kept for another.
C7_RequestsAreIndependent ==
    /\ [](\A r \in Requests :
            /\ CountOp(trace[r], "await") = CountOp(trace[r], "baseRequest")
            /\ CountOp(trace[r], "resume") <= 1
            /\ ProxyFinished(r) =>
                  /\ CountOp(trace[r], "await") = 1
                  /\ ReturnsPromise(req[r].baseRequest) =>
                        /\ call[r].state \in {"fulfilled", "rejected"}
                        /\ call[r].state = "fulfilled" =>
                              /\ nextErr[r] = << >>
                              /\ res[r] = Json(Status(FreshRes, call[r].response.statusCode),
                                               call[r].response.body)
                        /\ call[r].state = "rejected" => nextErr[r] = << call[r].err >>
                  /\ ~ReturnsPromise(req[r].baseRequest) =>
                        nextErr[r] = << InvalidStatusError >>)
    /\ [][\A r, q \in Requests :
            (r # q /\ PerRequest(r)' # PerRequest(r)) => PerRequest(q)' = PerRequest(q)]_vars

C7_Witness ==
    \E r, q \in Requests :
        /\ r # q
        /\ pc[r].state = "done" /\ ProxyFinished(r)
        /\ call[r].response.statusCode = 201 /\ res[r].statusCode = 201
        /\ pc[q].state = "awaiting"
        /\ call[q].state = "fulfilled" /\ call[q].response.statusCode = 200
        /\ ReturnsPromise(req[q].baseRequest)

\* The logger.error event resolveError records for err under message m
LogEntry(m, err) == Event("logger.error", 0, m \o ReasonText(err), Payload(err.stack))

\* C8: for an unclassified failure both error middlewares record one log entry
\* carrying the generic message, the reason and the stack, and record it before
\* the 500 response is written; resolveError called with the log option absent
\* or false records none, and with it true records the entry first.
C8_LoggedBeforeResponding ==
    (rpc = "done" /\ Unclassified(rerr)) =>
        /\ rres.statusCode = 500
        /\ rvia \in {"developmentErrorHandler", "productionErrorHandler"} =>
              /\ Len(rtrace) = 3
              /\ rtrace[1] = LogEntry(GenericMessage, rerr)
              /\ rtrace[2].op = "res.status" /\ rtrace[2].code = 500
              /\ rtrace[3].op = "res.json"
        /\ (rvia = "resolveError" /\ ("log" \notin DOMAIN ropts \/ ~ropts.log)) =>
              Positions(rtrace, "logger.error") = {}
        /\ (rvia = "resolveError" /\ "log" \in DOMAIN ropts /\ ropts.log) =>
              /\ Positions(rtrace, "logger.error") = {1}
              /\ rtrace[1].body = Payload(rerr.stack)
              /\ Contains(rtrace[1].text, ReasonText(rerr))
              /\ rtrace[2].op = "res.status"

C8_Witness ==
    /\ rpc = "done"
    /\ rvia = "productionErrorHandler"
    /\ rerr = PlainError(<<"ECONNREFUSED">>, "RequestError")
    /\ rtrace[1] = LogEntry(GenericMessage, rerr)
    /\ rres.body = MessageBody(GenericMessage)

\* The events of request r up to the point express enters the error middleware
ForwarderEvents(r) ==
    LET stops == Positions(trace[r], "errorHandler")
    IN  IF stops = {} THEN trace[r]
        ELSE SubSeq(trace[r], 1, (CHOOSE i \in stops : \A j \in stops : i <= j) - 1)

C10_StatusWithoutPayloadIs500 ==
    \A r \in Requests :
        (pc[r].state = "done" /\ nextErr[r] # << >>) =>
            LET err == nextErr[r][1]
            IN  (~err.isApiError /\ err.statusCode # UndefinedStatus) =>
                    IF err.error = JsUndefined
                    THEN res[r].statusCode = 500 /\ res[r].body.tag = "message"
                    ELSE res[r].statusCode = err.statusCode /\ res[r].body = err.error

====
